---- MODULE Spec2Model ----
(***************************************************************************)
(* Model of litex_gen.py: the LiteX standalone core generator that         *)
(* composes a SoC around the ValentyUSB eptri core (LiteXCore.__init__),   *)
(* and commits it with Platform.build.                                     *)
(*                                                                         *)
(* LiteXCore.__init__ is modelled statement group by statement group (pc   *)
(* is the position inside the constructor), so that the order of the       *)
(* composition steps and the state each step leaves are observable.        *)
(* The generator is run twice in the model (run = 1, 2): the second run    *)
(* repeats the first with the same bus / CSR / clock configuration and the *)
(* same set of interrupt sources, but with freely chosen peripheral flags  *)
(* and a freely chosen population order of the IRQ registry.               *)
(***************************************************************************)
EXTENDS Integers, Sequences, FiniteSets, TLC

VARIABLES
    args,        \* parsed command line (main: args = parser.parse_args())
    params,      \* keyword parameters of LiteXCore.__init__ besides **kwargs
    run,         \* 1 = first generator run, 2 = the re-run
    pc,          \* position inside main / LiteXCore.__init__
    io,          \* platform: sequence of registered pin groups
    requested,   \* platform: identities handed out by platform.request, in order
    domains,     \* clock domains declared by _CRG (set of names)
    submodules,  \* self.submodules: names bound as attributes of the SoC
    csr,         \* names registered with add_csr
    masters,     \* bus masters added with self.bus.add_master
    irq_locs,    \* self.irq.locs, in insertion order: sequence of <<name, loc>>
    todo,        \* the sorted items the IRQ loop still has to visit
    comb,        \* combinational assignments, in order: [dst |-> .., src |-> ..]
    steps,       \* history: composition steps executed so far in this run
    cwd,         \* process working directory (sequence of path components)
    fs,          \* files written: set of [path |-> .., content |-> ..]
    first        \* what the first run produced (kept for the re-run comparison)

vars == <<args, params, run, pc, io, requested, domains, submodules, csr,
          masters, irq_locs, todo, comb, steps, cwd, fs, first>>

-----------------------------------------------------------------------------
(* Bounds of the model *)

\* largest number of interrupt sources the base SoC services register
MaxSources == 3

-----------------------------------------------------------------------------
(* Inputs *)

BusKinds == {"wishbone", "axi"}

SysClkFreqs == {12000000, 100000000}

OutputDirs == {"build", "out"}

\* names of interrupt-capable submodules the IRQ registry may hold
IrqNames == {"gpio", "timer0", "uart", "usb"}

\* the peripheral parameters of LiteXCore.__init__ (defaults first)
PeripheralFlags ==
    { [with_pwm |-> FALSE, with_gpio |-> FALSE, gpio_width |-> 32,
       with_spi_master |-> FALSE, spi_master_data_width |-> 8,
       spi_master_clk_freq |-> 8000000],
      [with_pwm |-> FALSE, with_gpio |-> TRUE, gpio_width |-> 32,
       with_spi_master |-> FALSE, spi_master_data_width |-> 8,
       spi_master_clk_freq |-> 8000000],
      [with_pwm |-> TRUE, with_gpio |-> TRUE, gpio_width |-> 8,
       with_spi_master |-> TRUE, spi_master_data_width |-> 16,
       spi_master_clk_freq |-> 1000000] }

-----------------------------------------------------------------------------
(* Platform *)

Pins(n) == <<[name |-> "", width |-> n]>>

Subsignal(n, p) == [name |-> n, width |-> p[1].width]

PinGroup(n, i, sigs) == [name |-> n, index |-> i, signals |-> sigs]

\* the static pin catalog
_io ==
    << PinGroup("sys_clk", 0, Pins(1)),
       PinGroup("sys_rst", 0, Pins(1)),
       PinGroup("usb", 0, << Subsignal("d_p", Pins(1)),
                             Subsignal("d_n", Pins(1)),
                             Subsignal("pullup", Pins(1)) >>),
       PinGroup("clk12", 0, Pins(1)),
       PinGroup("clk48", 0, Pins(1)) >>

Identity(g) == <<g.name, g.index>>

Identities(groups) == { Identity(groups[i]) : i \in 1..Len(groups) }

\* platform.add_extension(groups): the groups become requestable.  The
\* composition only ever extends the platform with identities that are new
\* (C9_IrqExportUnique); what the library does with a repeated identity is
\* not exercised by this program.
add_extension(platform, groups) == platform \o groups

\* platform.request(name): index 0 of the named group is handed out
request(reqs, name) == Append(reqs, <<name, 0>>)

Requestable(platform, name) == <<name, 0>> \in Identities(platform)

-----------------------------------------------------------------------------
(* Python ordering of the IRQ registry items *)

\* code points of the characters of a source name (Python str)
Chars(name) ==
    CASE name = "gpio"   -> <<103, 112, 105, 111>>
      [] name = "timer0" -> <<116, 105, 109, 101, 114, 48>>
      [] name = "uart"   -> <<117, 97, 114, 116>>
      [] name = "usb"    -> <<117, 115, 98>>

RECURSIVE LexLess(_, _)
\* a < b on Python sequences: first differing element decides, a proper
\* prefix is smaller
LexLess(a, b) ==
    IF b = <<>> THEN FALSE
    ELSE IF a = <<>> THEN TRUE
    ELSE IF Head(a) # Head(b) THEN Head(a) < Head(b)
    ELSE LexLess(Tail(a), Tail(b))

StrLess(m, n) == LexLess(Chars(m), Chars(n))

\* (name, loc) < (name', loc') on Python tuples
ItemLess(x, y) == StrLess(x[1], y[1]) \/ (x[1] = y[1] /\ x[2] < y[2])

RECURSIVE InsertSorted(_, _)
InsertSorted(x, s) ==
    IF s = <<>> THEN <<x>>
    ELSE IF ItemLess(x, Head(s)) THEN <<x>> \o s
    ELSE <<Head(s)>> \o InsertSorted(x, Tail(s))

RECURSIVE SortItems(_)
SortItems(s) ==
    IF s = <<>> THEN <<>> ELSE InsertSorted(Head(s), SortItems(Tail(s)))

\* the registry iterated as it was populated (no sorted())
unsorted(items) == items

\* sorted(self.irq.locs.items())
sorted(items) == SortItems(items)

\* every content self.irq.locs can have when the IRQ loop reads it: distinct
\* names (dict keys) in any insertion order, locations allocated in that order
Registries ==
    UNION { { [i \in 1..k |-> <<f[i], i - 1>>] :
                f \in { g \in [1..k -> IrqNames] :
                          \A i, j \in 1..k : i # j => g[i] # g[j] } } :
            k \in 0..MaxSources }

Names(reg) == { reg[i][1] : i \in 1..Len(reg) }

-----------------------------------------------------------------------------
(* Wishbone interface (litex.soc.interconnect.wishbone) *)

\* signals of a wishbone interface; m2s: driven by the master side
wishbone_layout ==
    << [name |-> "adr",   width |-> 30, m2s |-> TRUE],
       [name |-> "dat_w", width |-> 32, m2s |-> TRUE],
       [name |-> "dat_r", width |-> 32, m2s |-> FALSE],
       [name |-> "sel",   width |-> 4,  m2s |-> TRUE],
       [name |-> "cyc",   width |-> 1,  m2s |-> TRUE],
       [name |-> "stb",   width |-> 1,  m2s |-> TRUE],
       [name |-> "ack",   width |-> 1,  m2s |-> FALSE],
       [name |-> "we",    width |-> 1,  m2s |-> TRUE],
       [name |-> "cti",   width |-> 3,  m2s |-> TRUE],
       [name |-> "bte",   width |-> 2,  m2s |-> TRUE],
       [name |-> "err",   width |-> 1,  m2s |-> FALSE] >>

\* wb_bus.get_ios(bus_name): one pin group, one sub-signal per bus signal
get_ios(bus_name) ==
    << PinGroup(bus_name, 0,
                [i \in 1..Len(wishbone_layout) |->
                    [name  |-> wishbone_layout[i].name,
                     width |-> wishbone_layout[i].width]]) >>

BusSig(n) == "wb_bus." \o n

PadSig(group, n) == group \o "." \o n

\* wb_bus.connect_to_pads(pads, mode): in master mode the interface drives
\* the pads with its master-to-slave signals and reads the others from them;
\* in slave mode it is the other way round
connect_to_pads(group, mode) ==
    [i \in 1..Len(wishbone_layout) |->
        LET s == wishbone_layout[i] IN
        IF (mode = "master") = s.m2s
        THEN [dst |-> PadSig(group, s.name), src |-> BusSig(s.name)]
        ELSE [dst |-> BusSig(s.name), src |-> PadSig(group, s.name)]]

-----------------------------------------------------------------------------
(* main and LiteXCore.__init__ *)

\* the keyword arguments main hands to LiteXCore
soc_argdict(a) ==
    [arg \in {"bus", "csr_data_width", "csr_address_width", "csr_paging"}
        |-> a[arg]]

kwargs == soc_argdict(args)

Assign(d, s) == [dst |-> d, src |-> s]

\* the sources combinationally assigned to a signal
Drivers(sig) == { comb[i].src : i \in { j \in 1..Len(comb) : comb[j].dst = sig } }

IrqPin(name) == "irq_" \o name

\* the design handed to the build: ports in request order, the clock
\* domains and the combinational assignments
Fragment ==
    [ports |-> requested, domains |-> domains, comb |-> comb,
     submodules |-> submodules, csr |-> csr]

\* platform.get_verilog(fragment, name)
get_verilog(fragment, name) == [name |-> name, design |-> fragment]

Init ==
    /\ args \in [bus : BusKinds, csr_data_width : {8}, csr_address_width : {14},
                 csr_paging : {2048}, output_dir : {"build"}]
    /\ params \in { [sys_clk_freq |-> f, flags |-> p] :
                      f \in SysClkFreqs, p \in PeripheralFlags }
    /\ run = 1
    /\ pc = "main"
    /\ io = <<>>
    /\ requested = <<>>
    /\ domains = {}
    /\ submodules = {}
    /\ csr = {}
    /\ masters = {}
    /\ irq_locs = <<>>
    /\ todo = <<>>
    /\ comb = <<>>
    /\ steps = <<>>
    /\ cwd = <<>>
    /\ fs = {}
    /\ first = [done |-> FALSE]

\* platform = Platform(_io)
NewPlatform ==
    /\ pc = "main"
    /\ io' = _io
    /\ requested' = <<>>
    /\ steps' = Append(steps, "platform")
    /\ pc' = "crg"
    /\ UNCHANGED <<args, params, run, domains, submodules, csr, masters,
                   irq_locs, todo, comb, cwd, fs, first>>

\* the clock wire _CRG ties cd_sys to, were it the sys_clk pin
sys_clk_source_sys_clk == "sys_clk"

\* the clock wire _CRG ties cd_sys to
sys_clk_source == "clk12"

\* self.submodules.crg = _CRG(platform)
CRG ==
    /\ pc = "crg"
    /\ \A n \in {"sys_rst", "sys_clk", "clk12", "clk48"} : Requestable(io, n)
    /\ domains' = {"sys", "usb_12", "usb_48"}
    /\ requested' = request(request(request(request(requested,
                        "sys_rst"), "sys_clk"), "clk12"), "clk48")
    /\ comb' = comb \o << Assign("cd_sys.rst", "sys_rst"),
                          Assign("cd_sys.clk", sys_clk_source),
                          Assign("cd_usb_12.rst", "sys_rst"),
                          Assign("cd_usb_12.clk", "clk12"),
                          Assign("cd_usb_48.rst", "sys_rst"),
                          Assign("cd_usb_48.clk", "clk48") >>
    /\ submodules' = submodules \cup {"crg"}
    /\ steps' = Append(steps, "crg")
    /\ pc' = "soc"
    /\ UNCHANGED <<args, params, run, io, csr, masters, irq_locs, todo,
                   cwd, fs, first>>

\* SoCMini.__init__(self, platform, clk_freq=sys_clk_freq, **kwargs): the base
\* SoC services; they own the IRQ registry, whose content the IRQ loop reads
\* later, and the interrupt-capable submodules they register themselves.
\* The re-run meets the same set of interrupt sources as the first run.
SoCMiniInit ==
    /\ pc = "soc"
    /\ \E reg \in Registries :
         /\ first.done => Names(reg) = Names(first.irq_locs)
         /\ irq_locs' = reg
         /\ submodules' = submodules \cup (Names(reg) \ {"usb"})
    /\ steps' = Append(steps, "soc")
    /\ pc' = "usb"
    /\ UNCHANGED <<args, params, run, io, requested, domains, csr, masters,
                   todo, comb, cwd, fs, first>>

\* the submodules built besides the USB core, were the GPIO flag honoured
peripherals_with_gpio(p) == IF p.with_gpio THEN {"gpio"} ELSE {}

\* the submodules LiteXCore.__init__ builds besides the USB core: none, the
\* peripheral parameters are never read
peripherals(p) == {}

\* usb_pads = platform.request("usb"); the eptri core becomes self.usb and is
\* registered in the CSR space
AddUsb ==
    /\ pc = "usb"
    /\ Requestable(io, "usb")
    /\ requested' = request(requested, "usb")
    /\ submodules' = submodules \cup {"usb"} \cup peripherals(params.flags)
    /\ csr' = csr \cup {"usb"} \cup peripherals(params.flags)
    /\ steps' = Append(steps, "usb")
    /\ pc' = "bus"
    /\ UNCHANGED <<args, params, run, io, domains, masters, irq_locs, todo,
                   comb, cwd, fs, first>>

\* the orientation in which the bus is connected to its pads, were it "master"
pads_mode_master == "master"

\* the orientation in which the bus is connected to its pads
pads_mode == "slave"

\* whether the wishbone master is built, were it built for every bus kind
wants_wishbone_always(kw) == TRUE

\* if kwargs["bus"] == "wishbone"
wants_wishbone(kw) == kw["bus"] = "wishbone"

\* # Wishbone Master
WishboneMaster ==
    /\ pc = "bus"
    /\ IF wants_wishbone(kwargs)
       THEN /\ masters' = masters \cup {"wb_bus"}
            /\ io' = add_extension(io, get_ios("wb"))
            /\ Requestable(io', "wb")
            /\ requested' = request(requested, "wb")
            /\ comb' = comb \o connect_to_pads("wb", pads_mode)
            /\ steps' = Append(steps, "bus")
       ELSE UNCHANGED <<masters, io, requested, comb, steps>>
    /\ pc' = "irq"
    /\ UNCHANGED <<args, params, run, domains, submodules, csr, irq_locs,
                   todo, cwd, fs, first>>

\* for name, loc in sorted(self.irq.locs.items()): the iteration order is fixed
IrqSort ==
    /\ pc = "irq"
    /\ todo' = sorted(irq_locs)
    /\ steps' = Append(steps, "irq")
    /\ pc' = "irq_loop"
    /\ UNCHANGED <<args, params, run, io, requested, domains, submodules,
                   csr, masters, irq_locs, comb, cwd, fs, first>>

\* the pin name of an interrupt source, were the source name left out
irq_pin_name_fixed(name) == "irq_"

\* "irq_"+name
irq_pin_name(name) == IrqPin(name)

\* one iteration of the IRQ loop
IrqExport ==
    /\ pc = "irq_loop"
    /\ todo # <<>>
    /\ LET name == Head(todo)[1]
           pin  == irq_pin_name(name)
       IN  /\ name \in submodules
           /\ io' = add_extension(io, <<PinGroup(pin, 0, Pins(1))>>)
           /\ Requestable(io', pin)
           /\ requested' = request(requested, pin)
           /\ comb' = Append(comb, Assign(pin, name \o ".ev.irq"))
    /\ todo' = Tail(todo)
    /\ UNCHANGED <<args, params, run, pc, domains, submodules, csr, masters,
                   irq_locs, steps, cwd, fs, first>>

\* the IRQ loop is exhausted: LiteXCore(...) returns the SoC
Composed ==
    /\ pc = "irq_loop"
    /\ todo = <<>>
    /\ pc' = "composed"
    /\ UNCHANGED <<args, params, run, io, requested, domains, submodules,
                   csr, masters, irq_locs, todo, comb, steps, cwd, fs, first>>

\* builder.build() -> Platform.build(fragment, build_dir)
Build ==
    /\ pc = "composed"
    /\ LET build_dir  == args.output_dir
           top_output == get_verilog(Fragment, "top_usb")
       IN  /\ cwd' = Append(cwd, build_dir)
           /\ fs' = { f \in fs : f.path # Append(cwd', "litex_core.v") }
                      \cup { [path |-> Append(cwd', "litex_core.v"),
                              content |-> top_output] }
    /\ pc' = "built"
    /\ UNCHANGED <<args, params, run, io, requested, domains, submodules,
                   csr, masters, irq_locs, todo, comb, steps, first>>

Artifact == CHOOSE f \in fs : f.path = Append(cwd, "litex_core.v")

\* the generator is started again: same bus, CSR and clock configuration, a
\* fresh output directory, any peripheral flags
Rerun ==
    /\ pc = "built"
    /\ run = 1
    /\ first' = [done |-> TRUE, params |-> params, io |-> io,
                 requested |-> requested, comb |-> comb, csr |-> csr,
                 submodules |-> submodules, masters |-> masters,
                 irq_locs |-> irq_locs, artifact |-> Artifact]
    /\ \E d \in OutputDirs, p \in PeripheralFlags :
         /\ \A f \in fs : f.path[1] # d
         /\ args' = [args EXCEPT !.output_dir = d]
         /\ params' = [params EXCEPT !.flags = p]
    /\ run' = 2
    /\ pc' = "main"
    /\ io' = <<>>
    /\ requested' = <<>>
    /\ domains' = {}
    /\ submodules' = {}
    /\ csr' = {}
    /\ masters' = {}
    /\ irq_locs' = <<>>
    /\ todo' = <<>>
    /\ comb' = <<>>
    /\ steps' = <<>>
    /\ cwd' = <<>>
    /\ UNCHANGED fs

Next ==
    \/ NewPlatform
    \/ CRG
    \/ SoCMiniInit
    \/ AddUsb
    \/ WishboneMaster
    \/ IrqSort
    \/ IrqExport
    \/ Composed
    \/ Build
    \/ Rerun

Spec == Init /\ [][Next]_vars

-----------------------------------------------------------------------------
(* Derived views of the composed design *)

Done == pc \in {"composed", "built"}

\* the pin groups registered after the static catalog
Dynamic == SubSeq(io, Len(_io) + 1, Len(io))

\* the names of the irq pin groups, in the order they were registered
IrqExports ==
    LET d == SelectSeq(Dynamic, LAMBDA g : g.name # "wb")
    IN  [i \in 1..Len(d) |-> d[i].name]

IrqExportsOf(groups) ==
    LET d == SelectSeq(SubSeq(groups, Len(_io) + 1, Len(groups)),
                       LAMBDA g : g.name # "wb")
    IN  [i \in 1..Len(d) |-> d[i].name]

Last(s) == s[Len(s)]

-----------------------------------------------------------------------------
(* Claims *)

\* C1: composing with bus == "axi" always ends in UnsupportedBus: no SoC is
\* returned and no artifact is committed.
C1_AxiFailsClosed ==
    kwargs["bus"] = "axi" => (~Done /\ fs = {})

\* C2: the irq pins are registered in ascending lexicographic order of the
\* source names, whatever the order in which the registry was populated; a
\* registry with the same names populated in another order gives the same
\* export sequence.
C2_IrqExportSorted ==
    Done =>
      /\ Len(IrqExports) = Cardinality(Names(irq_locs))
      /\ { IrqExports[i] : i \in 1..Len(IrqExports) }
            = { IrqPin(n) : n \in Names(irq_locs) }
      /\ \A i, j \in 1..Len(IrqExports) :
            i < j => \E m, n \in Names(irq_locs) :
                        /\ IrqExports[i] = IrqPin(m)
                        /\ IrqExports[j] = IrqPin(n)
                        /\ StrLess(m, n)
      /\ Names(irq_locs) = {"usb", "timer0", "gpio"}
            => IrqExports = <<"irq_gpio", "irq_timer0", "irq_usb">>
      /\ first.done => IrqExports = IrqExportsOf(first.io)

C2_Witness ==
    /\ pc = "built"
    /\ first.done
    /\ Names(irq_locs) = {"usb", "timer0", "gpio"}
    /\ irq_locs[1][1] = "usb"
    /\ first.irq_locs[1][1] = "timer0"

\* C4: after CRG setup sys and usb_12 are driven by the same reset wire
\* (sys_rst) and the same clock wire (clk12), usb_48 by the same reset wire
\* and another clock wire (clk48), for every sys_clk_freq and at every later
\* step of the composition.
C4_ClockWiring ==
    pc \notin {"main", "crg"} =>
      /\ domains = {"sys", "usb_12", "usb_48"}
      /\ Drivers("cd_sys.rst") = {"sys_rst"}
      /\ Drivers("cd_usb_12.rst") = Drivers("cd_sys.rst")
      /\ Drivers("cd_usb_48.rst") = Drivers("cd_sys.rst")
      /\ Drivers("cd_sys.clk") = {"clk12"}
      /\ Drivers("cd_usb_12.clk") = Drivers("cd_sys.clk")
      /\ Drivers("cd_usb_48.clk") = {"clk48"}
      /\ Drivers("cd_usb_48.clk") # Drivers("cd_sys.clk")

C4_Witness ==
    /\ pc = "built"
    /\ params.sys_clk_freq = 100000000
    /\ kwargs["bus"] = "wishbone"
    /\ Len(irq_locs) = 2

\* C5: with bus == "wishbone" every signal of the internal bus master has
\* exactly one pin in the wb group, and the pin has the opposite direction:
\* what the master drives is read from an input pin, what the master
\* receives is driven onto an output pin.
C5_WishbonePolarity ==
    (kwargs["bus"] = "wishbone" /\ pc \in {"irq", "irq_loop", "composed", "built"}) =>
      \E k \in 1..Len(io) :
        /\ io[k].name = "wb"
        /\ \A j \in 1..Len(io) : io[j].name = "wb" => j = k
        /\ Len(io[k].signals) = Len(wishbone_layout)
        /\ \A i \in 1..Len(wishbone_layout) :
             LET s == wishbone_layout[i]
             IN  /\ Cardinality({ n \in 1..Len(io[k].signals) :
                                   io[k].signals[n].name = s.name }) = 1
                 /\ IF s.m2s
                    THEN /\ Drivers(BusSig(s.name)) = {PadSig("wb", s.name)}
                         /\ Drivers(PadSig("wb", s.name)) = {}
                    ELSE /\ Drivers(PadSig("wb", s.name)) = {BusSig(s.name)}
                         /\ Drivers(BusSig(s.name)) = {}

C5_Witness ==
    /\ pc = "built"
    /\ kwargs["bus"] = "wishbone"
    /\ "wb_bus" \in masters
    /\ <<"wb", 0>> \in { requested[i] : i \in 1..Len(requested) }

\* C6: a second run with identical configuration and the same set of
\* interrupt sources, against a fresh output directory, registers the same
\* pin groups in the same order, wires them the same way and writes the same
\* content under the same file name.
C6_RerunIdentical ==
    (pc = "built" /\ first.done /\ params = first.params) =>
      /\ io = first.io
      /\ requested = first.requested
      /\ comb = first.comb
      /\ Artifact.content = first.artifact.content
      /\ Last(Artifact.path) = Last(first.artifact.path)
      /\ Artifact.path # first.artifact.path

C6_Witness ==
    /\ pc = "built"
    /\ first.done
    /\ params = first.params
    /\ Len(irq_locs) = 3
    /\ irq_locs # first.irq_locs
    /\ Cardinality(fs) = 2

\* C7: after a successful composition the dynamically added pin groups are
\* exactly wb[0] iff bus == "wishbone" plus one irq_<name>[0] per registry
\* name, and the five catalog groups are still present.
C7_DynamicGroups ==
    Done =>
      /\ Identities(Dynamic)
           = (IF kwargs["bus"] = "wishbone" THEN {<<"wb", 0>>} ELSE {})
             \cup { <<IrqPin(n), 0>> : n \in Names(irq_locs) }
      /\ Len(Dynamic) = Cardinality(Identities(Dynamic))
      /\ { <<"sys_clk", 0>>, <<"sys_rst", 0>>, <<"clk12", 0>>,
           <<"clk48", 0>>, <<"usb", 0>> } \subseteq Identities(io)
      /\ Len(io) = 5 + Len(Dynamic)

C7_Witness ==
    /\ pc = "composed"
    /\ kwargs["bus"] = "axi"
    /\ Names(irq_locs) = {"uart", "usb"}

\* C8: the composition steps run in the stated order and a pin irq_usb is
\* exported in every successful composition.
C8_OrderAndIrqUsb ==
    Done =>
      /\ steps = (IF kwargs["bus"] = "wishbone"
                  THEN <<"platform", "crg", "soc", "usb", "bus", "irq">>
                  ELSE <<"platform", "crg", "soc", "usb", "irq">>)
      /\ "usb" \in csr
      /\ <<"irq_usb", 0>> \in Identities(io)

C10_FlagsHaveNoEffect ==
    (Done /\ first.done) =>
      /\ Identities(io) = Identities(first.io)
      /\ io = first.io
      /\ csr = first.csr
      /\ submodules = first.submodules
      /\ masters = first.masters
      /\ IrqExports = IrqExportsOf(first.io)

C10_Witness ==
    /\ pc = "composed"
    /\ first.done
    /\ \A k \in {"with_pwm", "with_gpio", "gpio_width", "with_spi_master",
                 "spi_master_data_width", "spi_master_clk_freq"} :
          params.flags[k] # first.params.flags[k]
    /\ Len(irq_locs) = 1

====
